---------------------------- MODULE Spec2Model ----------------------------
(***************************************************************************)
(* A model of kernel/common/printk.c: the printf-style formatter           *)
(* (vsprintf, write_num, write_float_point_num, skip_and_atoi) and the     *)
(* console writer (init_printk, set_printk_pos, auto_newline, putchar,     *)
(* printk_color) that renders the formatted text on a character grid.      *)
(*                                                                         *)
(* Characters are their ASCII codes; a C string is the sequence of its     *)
(* codes without the terminating 0, which At() supplies.                   *)
(***************************************************************************)
EXTENDS Integers, Sequences, FiniteSets, TLC

VARIABLES
    pos,    \* struct screen_info pos: geometry and cursor
    pc,     \* "idle", or "printing" inside printk_color's loop
    buf,    \* the shared scratch buffer printk_color formats into
    len,    \* vsprintf's return value of the running printk_color
    i,      \* printk_color's loop index
    ret,    \* the value the last completed public call returned
    last,   \* what the last step did: operation, cursor before it, glyphs drawn
    vs,     \* one call of vsprintf: its inputs and, once made, its result
    wn      \* one call of write_num: its inputs and, once made, its output

vars == <<pos, pc, buf, len, i, ret, last, vs, wn>>

-----------------------------------------------------------------------------
(* Bounds of the model *)

MaxLen == 2          \* tokens per template given to printk_color
MaxCoord == 1        \* set_printk_pos is tried this far outside the grid
MaxWidth == 5        \* largest field width given to write_num
MaxPrec == 3         \* largest precision given to write_num
MaxPieces == 2       \* directives and literals per template given to vsprintf
MaxRowsOver == 2     \* newlines are followed until the cursor is this far below the grid

-----------------------------------------------------------------------------
(* Characters *)

\* the character constants the source uses, by name
Ch == [ nul |-> 0, bs |-> 8, tab |-> 9, nl |-> 10, sp |-> 32, hash |-> 35,
        pct |-> 37, star |-> 42, plus |-> 43, minus |-> 45, dot |-> 46,
        d0 |-> 48, d2 |-> 50, d4 |-> 52, d5 |-> 53, d9 |-> 57,
        A |-> 65, L |-> 76, Z |-> 90,
        a |-> 97, c |-> 99, d |-> 100, f |-> 102, h |-> 104, i |-> 105,
        l |-> 108, n |-> 110, o |-> 111, O |-> 79, p |-> 112, s |-> 115,
        u |-> 117, x |-> 120, X |-> 88, z |-> 122 ]

\* *(fmt + (k - 1)): the terminating 0 follows the last character.  No template
\* of FormatPieces or ConsoleTokens makes vsprintf read past the terminator.
At(fmt, k) == IF k >= 1 /\ k <= Len(fmt) THEN fmt[k] ELSE 0

is_digit(c) == c >= Ch.d0 /\ c <= Ch.d9

-----------------------------------------------------------------------------
(* Console: geometry and cursor *)

\* A returned int: the value, or the name of the error code of printk.h it is
EPOS_OVERFLOW == "EPOS_OVERFLOW"
ReturnValue(v) == [err |-> "", val |-> v]
ReturnError(e) == [err |-> e, val |-> 0]

calculate_max_charNum(l, size) == l \div size

\* the screens init_printk is called with: <<width, height, char_size_x, char_size_y>>
Geometries == { <<20, 6, 2, 3>>, <<15, 7, 2, 3>> }

InitPrintkPos(width, height, FB_length, char_size_x, char_size_y) ==
    [ width |-> width, height |-> height,
      char_size_x |-> char_size_x, char_size_y |-> char_size_y,
      max_x |-> calculate_max_charNum(width, char_size_x),
      max_y |-> calculate_max_charNum(height, char_size_y),
      FB_length |-> FB_length,
      x |-> 0, y |-> 0 ]

\* auto_newline as a function of the screen state
auto_newline(p) ==
    LET p1 == IF p.x > p.max_x THEN [p EXCEPT !.x = 0, !.y = p.y + 1] ELSE p
    IN  IF p1.y > p1.max_y THEN [p1 EXCEPT !.y = 0] ELSE p1

\* putchar(fb, Xsize, x, y, FR, BK, font): the glyph drawn, by its pixel origin
Putchar(xpx, ypx, font) == [px |-> xpx, py |-> ypx, font |-> font]

\* the framebuffer offsets (in pixels) putchar writes for glyph g on screen p
PutcharPixels(p, g) ==
    { p.width * (g.py + r) + g.px + c :
        r \in 0..(p.char_size_y - 1), c \in 0..(p.char_size_x - 1) }

-----------------------------------------------------------------------------
(* NumberFormatter: write_num *)

\* the flag bits of printk.h, as the set of the bits that are set
AllFlags == {"LEFT", "PLUS", "SPACE", "SPECIAL", "PAD_ZERO", "SIGN", "SMALL"}

Max(a, b) == IF a > b THEN a ELSE b
Min(a, b) == IF a < b THEN a ELSE b

ABS(v) == IF v > 0 THEN v ELSE -v

Rep(c, n) == [k \in 1..Max(n, 0) |-> c]

\* digits[k] of the table write_num selects: lower case with SMALL
DigitChar(k, flags) ==
    IF k < 10 THEN Ch.d0 + k
    ELSE (IF "SMALL" \in flags THEN Ch.a ELSE Ch.A) + (k - 10)

\* the conversion loop: tmp_num, least significant digit first
RECURSIVE ConvertLoop(_, _, _)
ConvertLoop(num, base, flags) ==
    IF num > 0
    THEN <<DigitChar(num % base, flags)>> \o ConvertLoop(num \div base, base, flags)
    ELSE <<>>

Reverse(s) == [k \in 1..Len(s) |-> s[Len(s) + 1 - k]]

\* while (field_width-- > 0) *str++ = c;   n characters, and field_width afterwards
WhilePostDec(fw) == [n |-> Max(fw, 0), fw |-> Min(fw, 0) - 1]

\* write_num from line 448 on: the precision, the padding and the output order
WriteNumEmit(sign, tmp_num, base, field_width, precision, flags) ==
    LET js_num == Len(tmp_num)
        prec1 == IF js_num > precision THEN js_num ELSE precision
        pad   == IF "PAD_ZERO" \in flags THEN Ch.d0 ELSE Ch.sp
        lead  == IF flags \cap {"LEFT", "PAD_ZERO"} = {}
                 THEN WhilePostDec(field_width - prec1)
                 ELSE [n |-> 0, fw |-> field_width - prec1]
        prefix == IF "SPECIAL" \in flags
                  THEN (IF base = 16 THEN <<Ch.d0, DigitChar(33, flags)>>
                        ELSE IF base = 8 THEN <<DigitChar(24, flags)>> ELSE <<>>)
                  ELSE <<>>
        fill  == IF "LEFT" \notin flags
                 THEN WhilePostDec(lead.fw) ELSE [n |-> 0, fw |-> lead.fw]
        trail == WhilePostDec(fill.fw)
    IN  Rep(Ch.sp, lead.n)
        \o (IF sign # 0 THEN <<sign>> ELSE <<>>)
        \o prefix
        \o Rep(pad, fill.n)
        \o Rep(Ch.d0, prec1 - js_num)
        \o Reverse(tmp_num)
        \o Rep(Ch.sp, trail.n)

\* WriteNumSigned with a fault: the sign is emitted but its column is not taken from the
\* field width
WriteNumSignedNoColumn(sign, num, base, field_width, precision, flags) ==
    WriteNumEmit(sign,
        IF num = 0 THEN <<Ch.d0>> ELSE ConvertLoop(ABS(num), base, flags),
        base,
        field_width
          - (IF "SPECIAL" \in flags
             THEN (IF base = 16 THEN 2 ELSE IF base = 8 THEN 1 ELSE 0) ELSE 0),
        precision, flags)

\* write_num, lines 423-446: the columns of the sign and the prefix, the digits
WriteNumSigned(sign, num, base, field_width, precision, flags) ==
    WriteNumEmit(sign,
        IF num = 0 THEN <<Ch.d0>> ELSE ConvertLoop(ABS(num), base, flags),
        base,
        field_width
          - (IF sign # 0 THEN 1 ELSE 0)
          - (IF "SPECIAL" \in flags
             THEN (IF base = 16 THEN 2 ELSE IF base = 8 THEN 1 ELSE 0) ELSE 0),
        precision, flags)

\* write_num, lines 411-421: the sign character (0 for none) and the magnitude
WriteNumFlags(num, base, field_width, precision, flags) ==
    IF "SIGN" \in flags /\ num < 0
    THEN WriteNumSigned(Ch.minus, -num, base, field_width, precision, flags)
    ELSE WriteNumSigned(IF "PLUS" \in flags THEN Ch.plus
                        ELSE IF "SPACE" \in flags THEN Ch.sp ELSE 0,
                        num, base, field_width, precision, flags)

\* write_num(str, num, base, field_width, precision, flags): the characters it
\* appends to str (for a base outside 2..36 it returns a null pointer and
\* appends nothing; vsprintf only passes 8, 10 and 16)
write_num(num, base, field_width, precision, flags) ==
    IF base < 2 \/ base > 36 THEN <<>>
    ELSE WriteNumFlags(num, base, field_width, precision,
                       IF "LEFT" \in flags THEN flags \ {"PAD_ZERO"} ELSE flags)

-----------------------------------------------------------------------------
(* FloatFormatter: write_float_point_num.  A double is modelled by the      *)
(* integer number of its thousandths, m = num * 1000, for num >= 0.         *)

write_float_point_num(m, field_width, precision, flags) ==
    LET pad   == IF "PAD_ZERO" \in flags THEN Ch.d0 ELSE Ch.sp
        neg   == "SIGN" \in flags /\ m < 0
        sign  == IF neg THEN Ch.minus
                 ELSE IF "PLUS" \in flags THEN Ch.plus
                 ELSE IF "SPACE" \in flags THEN Ch.sp ELSE 0
        m1    == IF neg THEN -m ELSE m
        fw1   == IF sign # 0 THEN field_width - 1 ELSE field_width
        num_z == m1 \div 1000
        \* round((num - num_z) * precision), halves away from zero
        num_decimal == (2 * (m1 % 1000) * precision + 1000) \div 2000
        tmp_num_z == IF m1 = 0 THEN <<Ch.d0>> ELSE ConvertLoop(num_z, 10, flags)
        tmp_num_d == ConvertLoop(num_decimal, 10, flags)
        fw2   == fw1 - (precision + 1 + Len(tmp_num_z))
        lead  == IF "LEFT" \notin flags
                 THEN WhilePostDec(fw2) ELSE [n |-> 0, fw |-> fw2]
        \* js_num_d is -1 once the fraction's digits are written
        zeros == Max(precision + 1, 0)
        trail == WhilePostDec(lead.fw)
    IN  Rep(pad, lead.n)
        \o (IF sign # 0 THEN <<sign>> ELSE <<>>)
        \o Reverse(tmp_num_z)
        \o <<Ch.dot>>
        \o Reverse(tmp_num_d)
        \o Rep(Ch.d0, zeros)
        \o Rep(Ch.sp, trail.n)

-----------------------------------------------------------------------------
(* FormatEngine: skip_and_atoi and vsprintf *)

SizeofVoidPtr == 8

\* The variadic arguments are a sequence of slots [t, n, s]: t is the type the
\* caller passed ("int", "ptr", "str", "dbl"), n the slot's integer value (an
\* address for a pointer, the thousandths for a double) and s, for a char *,
\* the string that memory holds at address n.  Slot values stay inside the
\* range of int, where reading a slot as int or as long long gives the same
\* value.
IntArg(v) == [t |-> "int", n |-> v, s |-> <<>>]
PtrArg(a) == [t |-> "ptr", n |-> a, s |-> <<>>]
StrArg(a, str) == [t |-> "str", n |-> a, s |-> str]
DblArg(m) == [t |-> "dbl", n |-> m, s |-> <<>>]

\* va_arg(args, T) for the ai-th slot
VaArg(args, ai) == IF ai <= Len(args) THEN args[ai] ELSE IntArg(0)

\* va_arg(args, unsigned int): the slot's low 32 bits, unsigned
AsUnsignedInt(v) == IF v >= 0 THEN v ELSE v + 65536 * 65536

\* skip_and_atoi(&fmt) from position k: the value, and the position after the digits
RECURSIVE AtoiLoop(_, _, _)
AtoiLoop(fmt, k, ans) ==
    IF is_digit(At(fmt, k))
    THEN AtoiLoop(fmt, k + 1, ans * 10 + At(fmt, k) - Ch.d0)
    ELSE [val |-> ans, k |-> k]

skip_and_atoi(fmt, k) == AtoiLoop(fmt, k, 0)

\* the flag loop of vsprintf (while (flag_tmp) switch (*fmt))
RECURSIVE ParseFlags(_, _, _)
ParseFlags(fmt, k, flags) ==
    LET c == At(fmt, k) IN
    IF c = 0 THEN [k |-> k, flags |-> flags, flag_break |-> TRUE]
    ELSE IF c = Ch.minus THEN ParseFlags(fmt, k + 1, flags \cup {"LEFT"})
    ELSE IF c = Ch.plus THEN ParseFlags(fmt, k + 1, flags \cup {"PLUS"})
    ELSE IF c = Ch.sp THEN ParseFlags(fmt, k + 1, flags \cup {"SPACE"})
    ELSE IF c = Ch.hash THEN ParseFlags(fmt, k + 1, flags \cup {"SPECIAL"})
    ELSE IF c = Ch.d0 THEN ParseFlags(fmt, k + 1, flags \cup {"PAD_ZERO"})
    ELSE [k |-> k, flags |-> flags, flag_break |-> FALSE]

\* while (--field_width > 0) *str++ = ' ';
WhilePreDec(fw) == [n |-> Max(fw - 1, 0), fw |-> Min(fw - 1, 0)]

\* while (len < field_width--) *str++ = ' ';
WhileLenLess(l, fw) == [n |-> Max(fw - l, 0), fw |-> Min(fw, l) - 1]

QualChars == {Ch.h, Ch.l, Ch.L, Ch.Z}

\* the field width of a directive (lines 177-192): -1 when none is given
ParseWidth(fmt, k, args, ai, flags) ==
    IF At(fmt, k) = Ch.star
    THEN [val |-> VaArg(args, ai).n, k |-> k + 1, ai |-> ai + 1, flags |-> flags]
    ELSE IF is_digit(At(fmt, k))
    THEN LET a == skip_and_atoi(fmt, k) IN
         IF a.val < 0
         THEN [val |-> -a.val, k |-> a.k, ai |-> ai, flags |-> flags \cup {"LEFT"}]
         ELSE [val |-> a.val, k |-> a.k, ai |-> ai, flags |-> flags]
    ELSE [val |-> -1, k |-> k, ai |-> ai, flags |-> flags]

\* the precision of a directive (lines 194-208): -1 when none is given
ParsePrecision(fmt, k, args, ai) ==
    IF At(fmt, k) = Ch.dot
    THEN IF At(fmt, k + 1) = Ch.star
         THEN [val |-> VaArg(args, ai).n, k |-> k + 2, ai |-> ai + 1]
         ELSE IF is_digit(At(fmt, k + 1))
         THEN LET a == skip_and_atoi(fmt, k + 1) IN [val |-> a.val, k |-> a.k, ai |-> ai]
         ELSE [val |-> -1, k |-> k + 1, ai |-> ai]
    ELSE [val |-> -1, k |-> k, ai |-> ai]

\* the field width the 'p' case passes on, and whether it adds PAD_ZERO
PointerWidth(field_width) ==
    IF field_width = 0
    THEN [fw |-> 2 * SizeofVoidPtr, zero |-> TRUE]
    ELSE [fw |-> field_width, zero |-> FALSE]

\* the base an integer conversion passes to write_num (lines 291-341)
IntegerBase(c) ==
    IF c \in {Ch.o, Ch.O} THEN 8 ELSE IF c \in {Ch.x, Ch.X} THEN 16 ELSE 10

\* the flags an integer conversion adds before it calls write_num
IntegerFlags(c) ==
    IF c = Ch.o THEN {"SMALL", "SPECIAL"}
    ELSE IF c = Ch.O THEN {"SPECIAL"}
    ELSE IF c = Ch.x THEN {"SMALL"}
    ELSE IF c \in {Ch.i, Ch.d} THEN {"SIGN"}
    ELSE {}

\* The conversion of one directive (lines 220-374).  st is vsprintf's state on
\* reaching the directive: k the position of its '%', out the characters
\* written to buf, ai the next argument, qualifier the local of that name,
\* fetches the integer arguments fetched so far (wide: through the long long
\* overload; own: the qualifier the directive itself carries, 0 for none),
\* nullDeref whether a null char * was read through, nwrites what %n stored,
\* flag_break whether parsing stopped.  d is what the directive's head parsed
\* to: k the position of the conversion character, ai the next argument,
\* flags, field_width, precision, qualifier and own.
Conversion(fmt, args, st, d, c, a) ==
    IF c = Ch.pct
    THEN [st EXCEPT !.k = d.k, !.ai = d.ai, !.qualifier = d.qualifier,
                    !.out = Append(st.out, Ch.pct)]
    ELSE IF c = Ch.c THEN
        LET l == IF "LEFT" \notin d.flags THEN WhilePreDec(d.field_width)
                 ELSE [n |-> 0, fw |-> d.field_width]
            r == WhilePreDec(l.fw)
        IN [st EXCEPT !.k = d.k, !.ai = d.ai + 1, !.qualifier = d.qualifier,
                      !.out = st.out \o Rep(Ch.sp, l.n) \o <<a.n % 256>>
                              \o Rep(Ch.sp, r.n)]
    ELSE IF c = Ch.s THEN
        \* if (!s) s = '\0'; leaves s null, and strlen(s) reads through it
        LET len0 == Len(a.s)
            l == IF d.precision >= 0 /\ len0 > d.precision THEN d.precision ELSE len0
            lead == IF "LEFT" \notin d.flags THEN WhileLenLess(l, d.field_width)
                    ELSE [n |-> 0, fw |-> d.field_width]
            trail == WhileLenLess(l, lead.fw)
        IN [st EXCEPT !.k = d.k, !.ai = d.ai + 1, !.qualifier = d.qualifier,
                      !.nullDeref = st.nullDeref \/ a.n = 0,
                      !.out = st.out \o Rep(Ch.sp, lead.n) \o SubSeq(a.s, 1, l)
                              \o Rep(Ch.sp, trail.n)]
    ELSE IF c = Ch.p THEN
        LET pw == PointerWidth(d.field_width) IN
        [st EXCEPT !.k = d.k, !.ai = d.ai + 1, !.qualifier = d.qualifier,
                   !.out = st.out \o write_num(a.n, 16, pw.fw, d.precision,
                               IF pw.zero THEN d.flags \cup {"PAD_ZERO"} ELSE d.flags)]
    ELSE IF c = Ch.n THEN
        [st EXCEPT !.k = d.k, !.ai = d.ai + 1, !.qualifier = d.qualifier,
                   !.nwrites = Append(st.nwrites,
                       [wide |-> d.qualifier = Ch.l, val |-> Len(st.out)])]
    ELSE IF c = Ch.f THEN
        [st EXCEPT !.k = d.k, !.ai = d.ai + 1, !.qualifier = d.qualifier,
                   !.out = st.out \o write_float_point_num(a.n, d.field_width,
                               IF d.precision < 0 THEN 3 ELSE d.precision, d.flags)]
    ELSE IF c \in {Ch.o, Ch.O, Ch.x, Ch.X,
                   Ch.i, Ch.d, Ch.u} THEN
        \* the integer conversions: if (qualifier == 'l') va_arg(args, long long)
        \* else va_arg(args, int)
        [st EXCEPT !.k = d.k, !.ai = d.ai + 1, !.qualifier = d.qualifier,
                   !.fetches = Append(st.fetches,
                       [at |-> st.k, conv |-> c, wide |-> d.qualifier = Ch.l,
                        own |-> d.own]),
                   !.out = st.out \o
                       write_num(IF c = Ch.u /\ d.qualifier # Ch.l
                                 THEN AsUnsignedInt(a.n) ELSE a.n,
                                 IntegerBase(c), d.field_width, d.precision,
                                 d.flags \cup IntegerFlags(c))]
    ELSE IF c # 0
    THEN [st EXCEPT !.k = d.k, !.ai = d.ai, !.qualifier = d.qualifier,
                    !.out = st.out \o <<Ch.pct, c>>]
    ELSE [st EXCEPT !.k = d.k - 1, !.ai = d.ai, !.qualifier = d.qualifier,
                    !.out = Append(st.out, Ch.pct)]

\* The qualifier of a directive (lines 210-218), k at the character after the
\* precision: the local `qualifier` is assigned only when the directive
\* carries one of h, l, L, Z, and keeps its earlier value otherwise.
\*   if (qualifier == 'l' && *fmt == 'l', *(fmt + 1) == 'd') ++fmt;
\* is a comma expression: its value is *(fmt + 1) == 'd' alone.
ParseQualifier(fmt, k, qualifier) ==
    LET hasq == At(fmt, k) \in QualChars
        k1 == IF hasq THEN k + 1 ELSE k
    IN [qualifier |-> IF hasq THEN At(fmt, k) ELSE qualifier,
        own |-> IF hasq THEN At(fmt, k) ELSE 0,
        k |-> IF At(fmt, k1 + 1) = Ch.d THEN k1 + 1 ELSE k1]

DirectiveHead(w, p, q) ==
    [k |-> q.k, ai |-> p.ai, flags |-> w.flags, field_width |-> w.val,
     precision |-> p.val, qualifier |-> q.qualifier, own |-> q.own]

AfterQualifier(fmt, args, st, w, p, q) ==
    Conversion(fmt, args, st, DirectiveHead(w, p, q), At(fmt, q.k), VaArg(args, p.ai))

AfterPrecision(fmt, args, st, w, p) ==
    AfterQualifier(fmt, args, st, w, p, ParseQualifier(fmt, p.k, st.qualifier))

AfterWidth(fmt, args, st, w) ==
    AfterPrecision(fmt, args, st, w, ParsePrecision(fmt, w.k, args, w.ai))

AfterFlags(fmt, args, st, f) ==
    IF f.flag_break THEN [st EXCEPT !.k = f.k, !.flag_break = TRUE]
    ELSE AfterWidth(fmt, args, st, ParseWidth(fmt, f.k, args, st.ai, f.flags))

\* one directive, from the '%' at st.k (lines 126-374)
Directive(fmt, args, st) == AfterFlags(fmt, args, st, ParseFlags(fmt, st.k + 1, {}))

\* the for loop of vsprintf (line 116)
RECURSIVE VsLoop(_, _, _)
VsLoop(fmt, args, st) ==
    LET c == At(fmt, st.k) IN
    IF c = 0 THEN st
    ELSE IF c # Ch.pct
    THEN VsLoop(fmt, args, [st EXCEPT !.out = Append(st.out, c), !.k = st.k + 1])
    ELSE LET d == Directive(fmt, args, st) IN
         IF d.flag_break THEN d
         ELSE VsLoop(fmt, args, [d EXCEPT !.k = d.k + 1])

\* vsprintf(buf, fmt, args).  qual0 is the value the uninitialised local
\* `qualifier` happens to hold on entry.  The result: buf's contents before
\* the terminating 0 (out), the value returned (len) and the record of the run.
vsprintf(fmt, args, qual0) ==
    LET st == VsLoop(fmt, args,
                  [k |-> 1, out |-> <<>>, ai |-> 1, qualifier |-> qual0,
                   fetches |-> <<>>, nullDeref |-> FALSE, nwrites |-> <<>>,
                   flag_break |-> FALSE])
    IN [out |-> st.out, len |-> Len(st.out), fetches |-> st.fetches,
        nullDeref |-> st.nullDeref, nwrites |-> st.nwrites]

-----------------------------------------------------------------------------
(* Console writer: the public operations as actions *)

\* last: the operation, the character a loop iteration handled, the arguments
\* of set_printk_pos or the cursor before the iteration, and the glyphs drawn
Step(op, ch, x, y, glyphs) ==
    [op |-> op, ch |-> ch, x |-> x, y |-> y, glyphs |-> glyphs]

IdleVs == [fmt |-> <<>>, args |-> <<>>, qual0 |-> 0, done |-> TRUE,
           res |-> vsprintf(<<>>, <<>>, 0)]
IdleWn == [num |-> 0, base |-> 10, field_width |-> -1, precision |-> -1,
           flags |-> {}, done |-> TRUE, out |-> <<>>]

\* init_printk(width, height, FB_address, FB_length, char_size_x, char_size_y)
InitPrintk(g) ==
    /\ pc = "idle"
    /\ pos' = InitPrintkPos(g[1], g[2], g[1] * g[2], g[3], g[4])
    /\ ret' = ReturnValue(0)
    /\ last' = Step("init_printk", 0, 0, 0, <<>>)
    /\ UNCHANGED <<pc, buf, len, i, vs, wn>>

\* SetPrintkPos with a fault: the upper bounds compared with < instead of <=
SetPrintkPosStrict(x, y) ==
    /\ pc = "idle"
    /\ IF ~((x >= 0 /\ x < pos.max_x) /\ (y >= 0 /\ y < pos.max_y))
       THEN /\ ret' = ReturnError(EPOS_OVERFLOW)
            /\ pos' = pos
       ELSE /\ pos' = [pos EXCEPT !.x = x, !.y = y]
            /\ ret' = ReturnValue(0)
    /\ last' = Step("set_printk_pos", 0, x, y, <<>>)
    /\ UNCHANGED <<pc, buf, len, i, vs, wn>>

\* set_printk_pos(x, y)
SetPrintkPos(x, y) ==
    /\ pc = "idle"
    /\ IF ~((x >= 0 /\ x <= pos.max_x) /\ (y >= 0 /\ y <= pos.max_y))
       THEN /\ ret' = ReturnError(EPOS_OVERFLOW)
            /\ pos' = pos
       ELSE /\ pos' = [pos EXCEPT !.x = x, !.y = y]
            /\ ret' = ReturnValue(0)
    /\ last' = Step("set_printk_pos", 0, x, y, <<>>)
    /\ UNCHANGED <<pc, buf, len, i, vs, wn>>

\* the tab loop: while (space_to_print--) { putchar; ++pos.x; auto_newline(); }
RECURSIVE TabLoop(_, _, _)
TabLoop(p, space_to_print, glyphs) ==
    IF space_to_print = 0 THEN [pos |-> p, glyphs |-> glyphs]
    ELSE TabLoop(auto_newline([p EXCEPT !.x = p.x + 1]), space_to_print - 1,
                 Append(glyphs, Putchar(p.x * p.char_size_x, p.y * p.char_size_y,
                                        Ch.sp)))

\* the body of printk_color's loop for the character current (lines 638-679)
PutOne(p, current) ==
    IF current = Ch.nl
    THEN [pos |-> [p EXCEPT !.x = 0, !.y = p.y + 1], glyphs |-> <<>>]
    ELSE IF current = Ch.tab
    THEN TabLoop(p, 8 - (p.x % 8), <<>>)
    ELSE IF current = Ch.bs
    THEN LET p1 == [p EXCEPT !.x = p.x - 1]
             p2 == IF p1.x < 0
                   THEN (IF p1.y - 1 <= 0
                         THEN [p1 EXCEPT !.x = 0, !.y = 0]
                         ELSE [p1 EXCEPT !.x = p1.max_x, !.y = p1.y - 1])
                   ELSE p1
         IN [pos |-> auto_newline([p2 EXCEPT !.x = p2.x + 1]),
             glyphs |-> <<Putchar(p2.x * p2.char_size_x, p2.y * p2.char_size_y,
                                  Ch.sp)>>]
    ELSE [pos |-> auto_newline([p EXCEPT !.x = p.x + 1]),
          glyphs |-> <<Putchar(p.x * p.char_size_x, p.y * p.char_size_y, current)>>]

\* printk_color(FRcolor, BKcolor, fmt, ...): vsprintf into buf (line 630)
PrintkColor(fmt, args, qual0) ==
    /\ pc = "idle"
    /\ LET r == vsprintf(fmt, args, qual0) IN
         /\ buf' = r.out
         /\ len' = r.len
    /\ i' = 0
    /\ pc' = "printing"
    /\ last' = Step("printk_color", 0, 0, 0, <<>>)
    /\ UNCHANGED <<pos, ret, vs, wn>>

\* printk_color: one iteration of the loop over buf (lines 636-680)
PrintkChar ==
    /\ pc = "printing"
    /\ i < len
    /\ buf[i + 1] = Ch.nl => pos.y < pos.max_y + MaxRowsOver
    /\ LET current == buf[i + 1]
           r == PutOne(pos, current)
       IN /\ pos' = r.pos
          /\ last' = Step("char", current, pos.x, pos.y, r.glyphs)
    /\ i' = i + 1
    /\ UNCHANGED <<pc, buf, len, ret, vs, wn>>

\* printk_color: return i (line 682).  len and i are locals and end with the
\* call; the scratch buffer's contents are dead from here on, since the next
\* call formats into buf before it reads it, and the model empties it.
PrintkReturn ==
    /\ pc = "printing"
    /\ i >= len
    /\ ret' = ReturnValue(i)
    /\ pc' = "idle"
    /\ buf' = <<>>
    /\ len' = 0
    /\ i' = 0
    /\ last' = Step("return", 0, 0, 0, <<>>)
    /\ UNCHANGED <<pos, vs, wn>>

\* the templates printk_color is called with: up to MaxLen tokens
ConsoleTokens ==
    { [t |-> <<Ch.a>>, a |-> <<>>],
      [t |-> <<Ch.nl>>, a |-> <<>>],
      [t |-> <<Ch.tab>>, a |-> <<>>],
      [t |-> <<Ch.bs>>, a |-> <<>>],
      [t |-> <<Ch.pct, Ch.d>>, a |-> <<IntArg(42)>>] }

RECURSIVE Templates(_, _)
Templates(tokens, n) ==
    IF n = 0 THEN { [t |-> <<>>, a |-> <<>>] }
    ELSE LET shorter == Templates(tokens, n - 1) IN
         shorter \cup { [t |-> h.t \o k.t, a |-> h.a \o k.a] : h \in shorter, k \in tokens }

Init ==
    /\ \E g \in Geometries : pos = InitPrintkPos(g[1], g[2], g[1] * g[2], g[3], g[4])
    /\ pc = "idle"
    /\ buf = <<>>
    /\ len = 0
    /\ i = 0
    /\ ret = ReturnValue(0)
    /\ last = Step("init_printk", 0, 0, 0, <<>>)
    /\ vs = IdleVs
    /\ wn = IdleWn

Next ==
    \/ \E g \in Geometries : InitPrintk(g)
    \/ \E x \in (0 - MaxCoord)..(pos.max_x + MaxCoord),
          y \in (0 - MaxCoord)..(pos.max_y + MaxCoord) : SetPrintkPos(x, y)
    \/ \E tpl \in Templates(ConsoleTokens, MaxLen), q \in {0, Ch.l} :
          PrintkColor(tpl.t, tpl.a, q)
    \/ PrintkChar
    \/ PrintkReturn

Spec == Init /\ [][Next]_vars

-----------------------------------------------------------------------------
(* The formatter on its own: one call of vsprintf per behaviour *)

\* what occupies address 0 when a null char * is read through: nothing the
\* program controls
NullMemory == { <<>>, <<Ch.z>> }

\* the pieces templates are built from, each with the arguments its directive takes
FormatPieces ==
    { [t |-> <<Ch.a>>, a |-> <<>>],
      [t |-> <<Ch.pct>>, a |-> <<>>],
      [t |-> <<Ch.pct, Ch.minus>>, a |-> <<>>],
      [t |-> <<Ch.pct, Ch.pct>>, a |-> <<>>],
      [t |-> <<Ch.pct, Ch.z>>, a |-> <<>>],
      [t |-> <<Ch.pct, Ch.d>>, a |-> <<IntArg(42)>>],
      [t |-> <<Ch.pct, Ch.i>>, a |-> <<IntArg(-42)>>],
      [t |-> <<Ch.pct, Ch.d5, Ch.d>>, a |-> <<IntArg(42)>>],
      [t |-> <<Ch.pct, Ch.star, Ch.d>>, a |-> <<IntArg(4), IntArg(42)>>],
      [t |-> <<Ch.pct, Ch.l, Ch.d>>, a |-> <<IntArg(42)>>],
      [t |-> <<Ch.pct, Ch.l, Ch.l, Ch.d>>, a |-> <<IntArg(-42)>>],
      [t |-> <<Ch.pct, Ch.x>>, a |-> <<IntArg(255)>>],
      [t |-> <<Ch.pct, Ch.l, Ch.X>>, a |-> <<IntArg(255)>>],
      [t |-> <<Ch.pct, Ch.o>>, a |-> <<IntArg(8)>>],
      [t |-> <<Ch.pct, Ch.h, Ch.u>>, a |-> <<IntArg(42)>>],
      [t |-> <<Ch.pct, Ch.c>>, a |-> <<IntArg(97)>>],
      [t |-> <<Ch.pct, Ch.n>>, a |-> <<PtrArg(4096)>>],
      [t |-> <<Ch.pct, Ch.dot, Ch.d2, Ch.f>>, a |-> <<DblArg(3141)>>],
      [t |-> <<Ch.pct, Ch.s>>, a |-> <<StrArg(4096, <<Ch.a, Ch.z>>)>>],
      [t |-> <<Ch.pct, Ch.d5, Ch.s>>, a |-> <<StrArg(4096, <<Ch.a>>)>>],
      [t |-> <<Ch.pct, Ch.p>>, a |-> <<PtrArg(255)>>],
      [t |-> <<Ch.pct, Ch.p>>, a |-> <<PtrArg(0)>>],
      [t |-> <<Ch.pct, Ch.d5, Ch.p>>, a |-> <<PtrArg(255)>>],
      [t |-> <<Ch.pct, Ch.star, Ch.p>>, a |-> <<IntArg(0), PtrArg(255)>>] }
    \cup { [t |-> <<Ch.pct, Ch.s>>, a |-> <<StrArg(0, m)>>] : m \in NullMemory }
    \cup { [t |-> <<Ch.pct, Ch.d5, Ch.s>>, a |-> <<StrArg(0, m)>>] : m \in NullMemory }

EmptyResult == vsprintf(<<>>, <<>>, 0)

InitFormat ==
    /\ \E tpl \in Templates(FormatPieces, MaxPieces), q \in {0, Ch.l, Ch.h} :
          vs = [fmt |-> tpl.t, args |-> tpl.a, qual0 |-> q, done |-> FALSE,
                res |-> EmptyResult]
    /\ pos = InitPrintkPos(20, 6, 120, 2, 3)
    /\ pc = "idle"
    /\ buf = <<>>
    /\ len = 0
    /\ i = 0
    /\ ret = ReturnValue(0)
    /\ last = Step("init_printk", 0, 0, 0, <<>>)
    /\ wn = IdleWn

VsprintfCall ==
    /\ ~vs.done
    /\ vs' = [vs EXCEPT !.res = vsprintf(vs.fmt, vs.args, vs.qual0), !.done = TRUE]
    /\ UNCHANGED <<pos, pc, buf, len, i, ret, last, wn>>

NextFormat == VsprintfCall

SpecFormat == InitFormat /\ [][NextFormat]_vars

-----------------------------------------------------------------------------
(* The number formatter on its own: one call of write_num per behaviour *)

NumValues == {0, 7, 42, -42, 255, -1}

InitNum ==
    /\ \E n \in NumValues, b \in {8, 10, 16}, w \in (-1)..MaxWidth,
          p \in (-1)..MaxPrec, f \in SUBSET AllFlags :
          wn = [num |-> n, base |-> b, field_width |-> w, precision |-> p,
                flags |-> f, done |-> FALSE, out |-> <<>>]
    /\ pos = InitPrintkPos(20, 6, 120, 2, 3)
    /\ pc = "idle"
    /\ buf = <<>>
    /\ len = 0
    /\ i = 0
    /\ ret = ReturnValue(0)
    /\ last = Step("init_printk", 0, 0, 0, <<>>)
    /\ vs = IdleVs

WriteNumCall ==
    /\ ~wn.done
    /\ wn' = [wn EXCEPT !.out = write_num(wn.num, wn.base, wn.field_width,
                                          wn.precision, wn.flags),
                        !.done = TRUE]
    /\ UNCHANGED <<pos, pc, buf, len, i, ret, last, vs>>

NextNum == WriteNumCall

SpecNum == InitNum /\ [][NextNum]_vars

-----------------------------------------------------------------------------
(* Properties of the console writer, over the behaviours of Spec *)

InGrid(p, x, y) == x >= 0 /\ x <= p.max_x /\ y >= 0 /\ y <= p.max_y

\* the wrap rule as the specification states it: the cell reached from (x, y)
WrapCell(p, x, y) ==
    LET y1 == IF x > p.max_x THEN y + 1 ELSE y
    IN <<IF x > p.max_x THEN 0 ELSE x, IF y1 > p.max_y THEN 0 ELSE y1>>

GlyphAt(p, x, y, font) == [px |-> x * p.char_size_x, py |-> y * p.char_size_y, font |-> font]

\* C1: whenever no call is running (after init_printk, and after every
\* completed set_printk_pos or printk_color), the cursor is inside the grid:
\* 0 <= x <= max_x and 0 <= y <= max_y.
C1_CursorInGrid == pc = "idle" => InGrid(pos, pos.x, pos.y)

\* C2: set_printk_pos(x, y) returns 0 and moves the cursor to (x, y) exactly
\* when 0 <= x <= max_x and 0 <= y <= max_y; for every other (x, y) it returns
\* EPOS_OVERFLOW and changes neither the cursor nor any other screen state.
C2_SetCursorContract ==
    [][ last'.op = "set_printk_pos" =>
          IF InGrid(pos, last'.x, last'.y)
          THEN /\ ret' = ReturnValue(0)
               /\ pos' = [pos EXCEPT !.x = last'.x, !.y = last'.y]
          ELSE /\ ret' = ReturnError(EPOS_OVERFLOW)
               /\ pos' = pos
               /\ UNCHANGED <<pc, buf, len, i>> ]_vars

\* a rejected set_printk_pos(max_x + 1, y) with the cursor away from the origin
C2_Witness ==
    /\ last.op = "set_printk_pos"
    /\ last.x = pos.max_x + 1
    /\ ret = ReturnError(EPOS_OVERFLOW)
    /\ pos.x > 0
    /\ pos.y > 0

\* C7: a tab handled at an in-grid cursor draws a space glyph in each cell it
\* passes, starting with the cursor's cell and wrapping after each step, and
\* leaves the cursor in a column that is a multiple of 8, also when the line
\* wrapped during the tab.
C7_TabStop ==
    (last.op = "char" /\ last.ch = Ch.tab /\ InGrid(pos, last.x, last.y)) =>
        /\ pos.x % 8 = 0
        /\ Len(last.glyphs) >= 1
        /\ last.glyphs[1] = GlyphAt(pos, last.x, last.y, Ch.sp)
        /\ \A k \in 1..Len(last.glyphs) :
              LET g == last.glyphs[k]
                  nxt == WrapCell(pos, g.px \div pos.char_size_x + 1,
                                  g.py \div pos.char_size_y)
              IN /\ g.font = Ch.sp
                 /\ IF k < Len(last.glyphs)
                    THEN last.glyphs[k + 1] = GlyphAt(pos, nxt[1], nxt[2], Ch.sp)
                    ELSE <<pos.x, pos.y>> = nxt

\* C8: a backspace handled at an in-grid cursor (x, y) moves to (x - 1, y) when
\* x >= 1, to the end of the previous row (max_x, y - 1) when x = 0 and
\* y >= 1, and to (0, 0) only when x = 0 and y = 0; it draws one space glyph in
\* that cell and then advances x by 1 under the wrap rule.
C8_Backspace ==
    (last.op = "char" /\ last.ch = Ch.bs /\ InGrid(pos, last.x, last.y)) =>
        LET cell == IF last.x >= 1 THEN <<last.x - 1, last.y>>
                    ELSE IF last.y >= 1 THEN <<pos.max_x, last.y - 1>>
                    ELSE <<0, 0>>
        IN /\ last.glyphs = <<GlyphAt(pos, cell[1], cell[2], Ch.sp)>>
           /\ <<pos.x, pos.y>> = WrapCell(pos, cell[1] + 1, cell[2])

\* C10: every glyph printk_color draws lies wholly inside the pixel buffer:
\* x * char_size_x + char_size_x <= width and y * char_size_y + char_size_y
\* <= height, so every pixel written is a pixel of the framebuffer.
C10_GlyphInsideBuffer ==
    \A k \in 1..Len(last.glyphs) :
        LET g == last.glyphs[k] IN
        /\ g.px + pos.char_size_x <= pos.width
        /\ g.py + pos.char_size_y <= pos.height
        /\ \A o \in PutcharPixels(pos, g) : o >= 0 /\ o < pos.FB_length

-----------------------------------------------------------------------------
(* Properties of write_num, over the behaviours of SpecNum *)

\* the digits of n in the given base, most significant first
RECURSIVE C3_Digits(_, _, _)
C3_Digits(n, base, small) ==
    LET dig == n % base
        ch == IF dig < 10 THEN Ch.d0 + dig
              ELSE (IF small THEN Ch.a ELSE Ch.A) + dig - 10
    IN IF n < base THEN <<ch>> ELSE Append(C3_Digits(n \div base, base, small), ch)

\* the layout the specification gives for a call of write_num
C3_Layout(w) ==
    LET left == "LEFT" \in w.flags
        zero == "PAD_ZERO" \in w.flags /\ ~left
        small == "SMALL" \in w.flags
        sign == IF "SIGN" \in w.flags /\ w.num < 0 THEN <<Ch.minus>>
                ELSE IF "PLUS" \in w.flags THEN <<Ch.plus>>
                ELSE IF "SPACE" \in w.flags THEN <<Ch.sp>>
                ELSE <<>>
        prefix == IF "SPECIAL" \notin w.flags THEN <<>>
                  ELSE IF w.base = 16 THEN <<Ch.d0, IF small THEN Ch.x ELSE Ch.X>>
                  ELSE IF w.base = 8 THEN <<IF small THEN Ch.o ELSE Ch.O>>
                  ELSE <<>>
        digits == C3_Digits(IF w.num < 0 THEN 0 - w.num ELSE w.num, w.base, small)
        body == Max(w.precision, Len(digits))
        total == Max(w.field_width, Len(sign) + Len(prefix) + body)
        fill == total - (Len(sign) + Len(prefix) + body)
    IN [ total |-> total,
         out |-> (IF ~left /\ ~zero THEN Rep(Ch.sp, fill) ELSE <<>>)
                 \o sign \o prefix
                 \o (IF zero THEN Rep(Ch.d0, fill) ELSE <<>>)
                 \o Rep(Ch.d0, body - Len(digits))
                 \o digits
                 \o (IF left THEN Rep(Ch.sp, fill) ELSE <<>>) ]

C3_Is(num, base, field_width, precision, flags) ==
    /\ wn.num = num /\ wn.base = base /\ wn.field_width = field_width
    /\ wn.precision = precision /\ wn.flags = flags

\* C3: write_num (bases 8, 10, 16) emits leading spaces, sign, prefix,
\* zero-pad fill, the zeros up to the precision, the digits most significant
\* first and trailing spaces, in this order; the length is max(field_width,
\* sign + prefix + max(precision, digit count)); left-alignment suppresses
\* zero-padding; "%5d", "%-5d" and "%05d" of 42 give "   42", "42   ", "00042".
C3_WriteNumLayout ==
    wn.done =>
        /\ wn.out = C3_Layout(wn).out
        /\ Len(wn.out) = C3_Layout(wn).total
        /\ C3_Is(42, 10, 5, -1, {"SIGN"})
              => wn.out = <<Ch.sp, Ch.sp, Ch.sp, Ch.d4, Ch.d2>>
        /\ C3_Is(42, 10, 5, -1, {"SIGN", "LEFT"})
              => wn.out = <<Ch.d4, Ch.d2, Ch.sp, Ch.sp, Ch.sp>>
        /\ C3_Is(42, 10, 5, -1, {"SIGN", "PAD_ZERO"})
              => wn.out = <<Ch.d0, Ch.d0, Ch.d0, Ch.d4, Ch.d2>>

\* a negative number, signed, in a zero-padded field wider than its digits,
\* with a precision above the digit count: sign, fill and precision zeros all occur
C3_Witness ==
    /\ wn.done
    /\ C3_Is(-42, 10, 5, 3, {"SIGN", "PAD_ZERO"})
    /\ wn.out = <<Ch.minus, Ch.d0, Ch.d0, Ch.d4, Ch.d2>>

-----------------------------------------------------------------------------
(* Properties of vsprintf, over the behaviours of SpecFormat *)

\* C4: an integer directive (d, i, u, x, X, o, O) fetches its argument through
\* the long long overload exactly when the directive itself carries an l (or
\* ll) qualifier, whatever earlier directives or earlier calls carried.
C4_QualifierPerDirective ==
    vs.done =>
        \A k \in 1..Len(vs.res.fetches) :
            vs.res.fetches[k].wide <=> (vs.res.fetches[k].own = Ch.l)

\* C5: a %s directive given a null pointer never reads through it, and emits
\* only the padding its field width asks for.
C5_NullStringNotRead ==
    vs.done =>
        /\ ~vs.res.nullDeref
        /\ (vs.fmt = <<Ch.pct, Ch.s>> /\ vs.args[1].n = 0) => vs.res.out = <<>>
        /\ (vs.fmt = <<Ch.pct, Ch.d5, Ch.s>> /\ vs.args[1].n = 0)
              => vs.res.out = Rep(Ch.sp, 5)

\* C6: for a template that ends right after a '%' (here: literal text followed
\* by a final '%'), vsprintf emits the literal text followed by exactly one
\* '%' and returns a length that counts it.
C6_TruncatedDirective ==
    ( /\ vs.done
      /\ Len(vs.fmt) >= 1
      /\ vs.fmt[Len(vs.fmt)] = Ch.pct
      /\ \A k \in 1..(Len(vs.fmt) - 1) : vs.fmt[k] # Ch.pct )
    => /\ vs.res.out = vs.fmt
       /\ vs.res.len = Len(vs.fmt)

\* C9: %p with no field width prints the pointer in hexadecimal, zero-padded
\* to twice the pointer's byte size (16 digits); an explicit width ("%5p")
\* replaces that default.
C9_PointerDefaultWidth ==
    vs.done =>
        /\ vs.fmt = <<Ch.pct, Ch.p>> =>
              LET hex == C3_Digits(vs.args[1].n, 16, FALSE) IN
              /\ Len(vs.res.out) = 2 * SizeofVoidPtr
              /\ vs.res.out = Rep(Ch.d0, 2 * SizeofVoidPtr - Len(hex)) \o hex
        /\ vs.fmt = <<Ch.pct, Ch.d5, Ch.p>> =>
              LET hex == C3_Digits(vs.args[1].n, 16, FALSE) IN
              vs.res.out = Rep(Ch.sp, 5 - Len(hex)) \o hex

=============================================================================
